---- MODULE Spec2Model ----
(***************************************************************************)
(* Model of custom_components/flux_led/light.py: the FluxLight entity, its *)
(* cached state, and the handlers update, turn_on, turn_off and            *)
(* set_custom_effect, together with the calls they make on the bulb        *)
(* client (WifiLedBulb).                                                   *)
(*                                                                         *)
(* Conventions                                                             *)
(*  - Python None is None (-1) for integer fields, NoneHs (<<>>) for       *)
(*    tuples, "None" for strings, and the string "None" for the tri-state  *)
(*    _state (None / True / False).                                        *)
(*  - hue and saturation are kept in thousandths (color_util rounds to     *)
(*    three decimals): <<30118, 100000>> is (30.118, 100.0).               *)
(*  - _current_effect holds either a raw byte (after update) or an effect  *)
(*    name (after turn_on); it is a record [kind, code, name] so that the  *)
(*    Python comparison of a str with an int is modelled, not assumed.     *)
(***************************************************************************)
EXTENDS Integers, Sequences, FiniteSets, TLC

\* ------------------------------------------------------------------ bounds
\* Light levels run over {0, 255 \div MaxLevel, ..., 255}.
MaxLevel == 1

\* ----------------------------------------------------- program constants
None == -1
NoneHs == <<>>

MODE_RGB == "rgb"
MODE_RGBW == "rgbw"
MODE_RGBCW == "rgbcw"
MODE_RGBWW == "rgbww"
MODE_WHITE == "w"

COLOR_TEMP_WARM_VS_COLD_WHITE_CUT_OFF == 285

EFFECT_RANDOM == "random"
EFFECT_CUSTOM == "custom"

\* EFFECT_MAP in the dict's insertion order, and as name -> code.
EFFECT_NAMES ==
    << "colorloop", "red_fade", "green_fade", "blue_fade", "yellow_fade",
       "cyan_fade", "purple_fade", "white_fade", "rg_cross_fade",
       "rb_cross_fade", "gb_cross_fade", "colorstrobe", "red_strobe",
       "green_strobe", "blue_strobe", "yellow_strobe", "cyan_strobe",
       "purple_strobe", "white_strobe", "colorjump" >>

EFFECT_MAP ==
    [ colorloop |-> 37, red_fade |-> 38, green_fade |-> 39, blue_fade |-> 40,
      yellow_fade |-> 41, cyan_fade |-> 42, purple_fade |-> 43,
      white_fade |-> 44, rg_cross_fade |-> 45, rb_cross_fade |-> 46,
      gb_cross_fade |-> 47, colorstrobe |-> 48, red_strobe |-> 49,
      green_strobe |-> 50, blue_strobe |-> 51, yellow_strobe |-> 52,
      cyan_strobe |-> 53, purple_strobe |-> 54, white_strobe |-> 55,
      colorjump |-> 56 ]

EFFECT_CUSTOM_CODE == 96

\* --------------------------------------------------------- Python helpers
\* Truthiness of an Optional[int]: None and 0 are falsy.
Truthy(x) == x # None /\ x # 0

Max(a, b) == IF a > b THEN a ELSE b
Min(a, b) == IF a < b THEN a ELSE b

\* round(n / d) for d > 0 (round half up; the model's palette has no ties).
RoundDiv(n, d) == (2 * n + d) \div (2 * d)

\* _current_effect values.
NoEffect == [kind |-> "none", code |-> None, name |-> "None"]
EffCode(c) == [kind |-> "code", code |-> c, name |-> "None"]
EffName(n) == [kind |-> "name", code |-> None, name |-> n]

\* Python ==  between a _current_effect value and an int code: a str or None
\* never equals an int.
EqCode(e, c) == e.kind = "code" /\ e.code = c

\* ------------------------------------------------- color_util conversions
\* color_util.color_RGB_to_hs: colorsys.rgb_to_hsv on r/255, g/255, b/255,
\* hue * 360 and saturation * 100 rounded to 3 decimals (thousandths here).
color_RGB_to_hs(rgb) ==
    LET r == rgb[1]
        g == rgb[2]
        b == rgb[3]
        maxc == Max(r, Max(g, b))
        minc == Min(r, Min(g, b))
        d == maxc - minc
        \* hue in thousandths of a degree before the  % 1.0
        h == IF r = maxc THEN RoundDiv(60000 * (g - b) + 360000 * d, d)
             ELSE IF g = maxc THEN RoundDiv(60000 * (b - r) + 120000 * d, d)
             ELSE RoundDiv(60000 * (r - g) + 240000 * d, d)
    IN  IF minc = maxc THEN <<0, 0>>
        ELSE << h % 360000, RoundDiv(100000 * d, maxc) >>

\* color_util.color_hs_to_RGB: colorsys.hsv_to_rgb(h/360, s/100, 1.0), each
\* channel int(x * 255).  The saturation is taken in whole percent, which is
\* exact for every colour of the model (saturations 0 and 100).
color_hs_to_RGB(hs) ==
    LET h == hs[1]
        sp == hs[2] \div 1000
        i == (h \div 60000) % 6
        f == h % 60000
        v == 255
        p == (255 * (100 - sp)) \div 100
        q == (255 * (6000000 - sp * f)) \div 6000000
        t == (255 * (6000000 - sp * (60000 - f))) \div 6000000
    IN  IF sp = 0 THEN <<v, v, v>>
        ELSE CASE i = 0 -> <<v, t, p>>
               [] i = 1 -> <<q, v, p>>
               [] i = 2 -> <<p, v, t>>
               [] i = 3 -> <<p, q, v>>
               [] i = 4 -> <<t, p, v>>
               [] OTHER -> <<v, p, q>>


\* ------------------------------------------------------------------ state
VARIABLES
    state,            \* self._state: "None", "True" or "False"
    brightness,       \* self._brightness
    hs_color,         \* self._hs_color
    white_value,      \* self._white_value
    current_effect,   \* self._current_effect
    last_brightness,  \* self._last_brightness
    last_hs_color,    \* self._last_hs_color
    mode,             \* self._mode
    get_rgbw,         \* self._get_rgbw
    get_rgb,          \* self._get_rgb
    effect_speed,     \* self._effect_speed
    bulb,             \* self._bulb: what getRgbww() returns
    fetched,          \* history: the snapshot the last handler fetched
    throttled,        \* Throttle: update has run and its interval is open
    lastOp,           \* history: the handler that ran last
    result,           \* history: how it ended
    kwargs,           \* history: the keyword arguments of that turn_on
    cmds,             \* history: the client calls it made, in order
    before,           \* history: the entity as the last turn_off or
                      \* set_custom_effect found it
    device_mode,      \* ATTR_MODE of the device's configuration
    pending,          \* async_new_lights: the bulbs its loop has yet to do
    lights,           \* async_new_lights: the entities built so far
    registered,       \* the entities async_add_entities was given
    setup,            \* "start", "running", "added" or "not_ready"
    connected,        \* SIGNAL_ADD_DEVICE is connected to async_new_lights
    attempts          \* history: the bulbs WifiLedBulb was called for

fields == << state, brightness, hs_color, white_value, current_effect,
             last_brightness, last_hs_color, mode, get_rgbw, get_rgb,
             effect_speed >>

vars == << state, brightness, hs_color, white_value, current_effect,
           last_brightness, last_hs_color, mode, get_rgbw, get_rgb,
           effect_speed, bulb, fetched, throttled, lastOp, result, kwargs, cmds,
           before, device_mode, pending, lights, registered, setup, connected,
           attempts >>

\* What the entity's handlers never touch: its configuration and the set up.
setup_vars == << pending, lights, registered, setup, connected, attempts >>

\* The entity's fields as one record, which the handlers below transform.
Self ==
    [ state |-> state, brightness |-> brightness, hs_color |-> hs_color,
      white_value |-> white_value, current_effect |-> current_effect,
      last_brightness |-> last_brightness, last_hs_color |-> last_hs_color,
      mode |-> mode, get_rgbw |-> get_rgbw, get_rgb |-> get_rgb,
      effect_speed |-> effect_speed ]

Install(s) ==
    /\ state' = s.state
    /\ brightness' = s.brightness
    /\ hs_color' = s.hs_color
    /\ white_value' = s.white_value
    /\ current_effect' = s.current_effect
    /\ last_brightness' = s.last_brightness
    /\ last_hs_color' = s.last_hs_color
    /\ mode' = s.mode
    /\ get_rgbw' = s.get_rgbw
    /\ get_rgb' = s.get_rgb
    /\ effect_speed' = s.effect_speed

\* ----------------------------------------------------------- input sets
Levels == { (255 * i) \div MaxLevel : i \in 0..MaxLevel }

\* Colours a bulb reports, and the colours random.randint may draw.
BulbColours == { <<255, 128, 0>> }
Palette == { <<255, 128, 0>>, <<128, 0, 0>> }

\* Raw effect bytes: a preset (colorjump) and the custom pattern.
EffectBytes == { 56, 96 }

\* White levels a bulb reports.
WhiteLevels == { 0, 255 }

\* Configured effect speeds.
EffectSpeeds == { 35 }

\* (mode, rgbwcapable, rgbwprotocol) as the client reports them.
Capabilities ==
    { <<"ww", TRUE, FALSE>>, <<"color", TRUE, FALSE>>,
      <<"color", TRUE, TRUE>>, <<"color", FALSE, FALSE>> }

\* The snapshots update_state() may leave in the client.  getRgbw() and
\* getRgbww() extend getRgb() by the warm white byte and the cold white byte.
Snapshots ==
    { [ is_on |-> on, brightness |-> br, rgb |-> rgb, ww |-> ww, cw |-> 0,
        mode |-> cap[1], rgbwcapable |-> cap[2], rgbwprotocol |-> cap[3],
        raw_state3 |-> eb ] :
        on \in BOOLEAN, br \in Levels, rgb \in BulbColours, ww \in WhiteLevels,
        cap \in Capabilities, eb \in EffectBytes }

\* No snapshot: the handler fetched none.
NoSnapshot ==
    [ is_on |-> FALSE, brightness |-> None, rgb |-> NoneHs, ww |-> None,
      cw |-> None, mode |-> "None", rgbwcapable |-> FALSE,
      rgbwprotocol |-> FALSE, raw_state3 |-> None ]

getRgb(b) == b.rgb
getRgbw(b) == b.rgb \o <<b.ww>>
getRgbww(b) == b.rgb \o <<b.ww, b.cw>>

\* Keyword arguments of turn_on (ATTR_HS_COLOR, ATTR_BRIGHTNESS, ATTR_EFFECT,
\* ATTR_WHITE_VALUE, ATTR_COLOR_TEMP); an absent one is None.
NoKw ==
    [ hs_color |-> NoneHs, brightness |-> None, effect |-> "None",
      white |-> None, color_temp |-> None ]

Kw(hs, br, eff, white, ct) ==
    [ hs_color |-> hs, brightness |-> br, effect |-> eff, white |-> white,
      color_temp |-> ct ]

Red == <<0, 100000>>

\* The calls made: no argument, each argument alone, and pairs that meet in
\* one branch or compete for two.
Intents ==
    {NoKw}
    \cup { Kw(NoneHs, br, "None", None, None) : br \in Levels }
    \cup { Kw(Red, None, "None", None, None) }
    \cup { Kw(NoneHs, None, "None", w, None) : w \in WhiteLevels }
    \cup { Kw(NoneHs, None, "None", None, ct) : ct \in {285, 286} }
    \cup { Kw(NoneHs, None, e, None, None) :
              e \in {EFFECT_RANDOM, "colorjump", EFFECT_CUSTOM} }
    \cup { Kw(NoneHs, 255, "None", None, 285),
           Kw(NoneHs, 255, "None", 255, None),
           Kw(NoneHs, None, "colorjump", None, 286),
           Kw(NoneHs, None, "colorjump", 255, None),
           Kw(NoneHs, 255, EFFECT_RANDOM, None, None),
           Kw(Red, None, "colorjump", None, None) }

\* Arguments of the set_custom_effect service.
CustomEffects ==
    [ colors : { << <<255, 0, 0>> >>, << <<255, 0, 0>>, <<0, 0, 255>> >> },
      speed_pct : {50}, transition : {"gradual"} ]

\* ------------------------------------------------------------ client calls
\* A call on the bulb client.  args are the call's numbers in the order
\* given below (None for an omitted keyword); den is the denominator of the
\* white channels (w, w2), 1 unless they are fractions.
Call(op, args, den) ==
    [ op |-> op, args |-> args, den |-> den, colors |-> <<>>,
      transition |-> "None" ]

\* setRgbw(r, g, b, w=, w2=, brightness=)
setRgbw(r, g, b, w, w2, br) == Call("setRgbw", <<r, g, b, w, w2, br>>, 1)
setRgbwFrac(w, w2, den) ==
    Call("setRgbw", <<None, None, None, w, w2, None>>, den)
\* setRgb(r, g, b, brightness=)
setRgb(r, g, b, br) == Call("setRgb", <<r, g, b, br>>, 1)
setWarmWhite255(w) == Call("setWarmWhite255", <<w>>, 1)
setPresetPattern(code, speed) == Call("setPresetPattern", <<code, speed>>, 1)
turnOn == Call("turnOn", <<>>, 1)
turnOff == Call("turnOff", <<>>, 1)
setCustomPattern(colors, speed_pct, transition) ==
    [ op |-> "setCustomPattern", args |-> <<speed_pct>>, den |-> 1,
      colors |-> colors, transition |-> transition ]

\* What a handler leaves behind: the entity, the calls it made, how it ended
\* ("ok", "client_error" when the client call raised, "type_error" when the
\* handler itself raised TypeError).
Outcome(s, calls, res) == [ self |-> s, cmds |-> calls, result |-> res ]

\* A handler whose last statement before returning is the client call c.
AfterCall(s, c, fail) ==
    Outcome(s, <<c>>, IF fail THEN "client_error" ELSE "ok")


\* ---------------------------------------------------------------- update
\* update_mode, had it not looked at rgbwprotocol.
update_mode_ignores_protocol(b) ==
    IF b.mode = "ww" THEN MODE_WHITE
    ELSE IF b.rgbwcapable THEN MODE_RGBW
    ELSE MODE_RGB

\* update, lines 313-318: the mode the snapshot's flags select.
update_mode(b) ==
    IF b.mode = "ww" THEN MODE_WHITE
    ELSE IF b.rgbwcapable /\ ~b.rgbwprotocol THEN MODE_RGBW
    ELSE MODE_RGB

\* temperature_cw and temperature_ww.
temperature_cw(rgbww) == << rgbww[5], rgbww[4] >>
temperature_ww(rgbww) == rgbww[4]

\* update, lines 320-340: _white_value for the mode just selected.
update_white_value(m, b) ==
    IF m = MODE_RGBCW
    THEN LET white_temp == temperature_cw(getRgbww(b))
         IN  IF white_temp[1] > white_temp[2] THEN white_temp[1]
             ELSE white_temp[2]
    ELSE IF m = MODE_RGBWW THEN temperature_ww(getRgbww(b))
    ELSE getRgbw(b)[4]

\* update_brightness, had it kept the old value for a bulb that is off.
update_brightness_keeps_old_when_off(m, b, old) ==
    IF m = MODE_WHITE THEN update_white_value(m, b)
    ELSE IF b.is_on THEN b.brightness
    ELSE old

\* update, lines 320-340: _brightness (old is the value held before).
update_brightness(m, b, old) ==
    IF m = MODE_RGBCW
    THEN LET white_temp == temperature_cw(getRgbww(b))
         IN  IF white_temp[1] # 0 \/ white_temp[2] # 0 THEN 0 ELSE old
    ELSE IF m = MODE_RGBWW THEN (IF b.mode = "ww" THEN 0 ELSE old)
    ELSE IF m = MODE_WHITE THEN update_white_value(m, b)
    ELSE b.brightness

\* update_state, had it followed the on flag alone.
update_state_ignores_brightness(is_on, br) ==
    IF is_on THEN "True" ELSE "False"

\* update, lines 346-349.
update_state(is_on, br) == IF is_on /\ br > 0 THEN "True" ELSE "False"

\* update_last, had it not looked at _state.
update_last_always(st, new, old) == new

\* update, lines 351-353: _last_brightness and _last_hs_color follow the
\* value just computed only when the light is on.
update_last(st, new, old) == IF st = "True" THEN new ELSE old

\* update after update_bulb_info succeeded and left snapshot b in the client.
update(s, b) ==
    LET m == update_mode(b)
        wv == update_white_value(m, b)
        br == update_brightness(m, b, s.brightness)
        hs == color_RGB_to_hs(getRgb(b))
        st == update_state(b.is_on, br)
    IN  [ s EXCEPT
            !.get_rgbw = getRgbw(b),
            !.get_rgb = getRgb(b),
            !.mode = m,
            !.white_value = wv,
            !.brightness = br,
            !.hs_color = hs,
            !.current_effect = EffCode(b.raw_state3),
            !.state = st,
            !.last_brightness = update_last(st, br, @),
            !.last_hs_color = update_last(st, hs, @) ]

\* update_failed, had it marked the light off.
update_failed_marks_off(s) == [s EXCEPT !.state = "False"]

\* update when update_bulb_info raised BrokenPipeError: log and return.
update_failed(s) == s

\* effect, lines 417-421: the first name of EFFECT_MAP whose code equals e.
effect_preset(e) ==
    IF \E i \in 1..Len(EFFECT_NAMES) : EqCode(e, EFFECT_MAP[EFFECT_NAMES[i]])
    THEN LET first == CHOOSE i \in 1..Len(EFFECT_NAMES) :
                 /\ EqCode(e, EFFECT_MAP[EFFECT_NAMES[i]])
                 /\ \A j \in 1..(i - 1) :
                      ~EqCode(e, EFFECT_MAP[EFFECT_NAMES[j]])
         IN  EFFECT_NAMES[first]
    ELSE "None"

\* effect, without the EFFECT_CUSTOM_CODE test of lines 414-415.
effect_without_custom(s) == effect_preset(s.current_effect)

\* The effect property, lines 409-421.
effect(s) ==
    IF EqCode(s.current_effect, EFFECT_CUSTOM_CODE) THEN EFFECT_CUSTOM
    ELSE effect_preset(s.current_effect)

\* --------------------------------------------------------------- turn_on
mired_min == 500
mired_max == 153
kelvin_min == 2700
kelvin_max == 6500

\* Denominator of the white channels the RGBCW colour temperature branch
\* sends: (mired_min - mired_max) * (kelvin_max - kelvin_min).
TempDen == (mired_min - mired_max) * (kelvin_max - kelvin_min)

\* max(color_temp_kelvin - 2700, 0) * (mired_min - mired_max), lines 473-477.
temp_kelvin(color_temp) ==
    LET scaled == (mired_min - color_temp) * (kelvin_max - kelvin_min)
                  + kelvin_min * (mired_min - mired_max)
    IN  Max(scaled - 2700 * (mired_min - mired_max), 0)

\* warm and cold before scaling, lines 478-479, as <<warm, cold>> * TempDen.
temp_warm_cold(color_temp) ==
    LET k == temp_kelvin(color_temp)
    IN  << 255 * ((mired_min - mired_max) * 3800 - k),
           Min(255 * k, 255 * (mired_min - mired_max) * 3800) >>

\* warm and cold times white / 255, lines 480-481, as <<warm, cold>> * TempDen.
temp_scaled(color_temp, white) ==
    LET wc == temp_warm_cold(color_temp)
    IN  << (wc[1] \div 255) * white, (wc[2] \div 255) * white >>

\* temp_force_cold, had it left the cold channel alone.
temp_force_cold_never(warm, cold) == cold

\* lines 483-486: the cold channel follows a warm channel that exceeds it.
temp_force_cold(warm, cold) == IF warm > cold THEN warm ELSE cold

\* lines 462-489: the call of the colour temperature branch in mode rgbcw.
color_temp_rgbcw(color_temp, white) ==
    LET sc == temp_scaled(color_temp, white)
    IN  setRgbwFrac(sc[1], temp_force_cold(sc[1], sc[2]), TempDen)

\* lines 458-497: the colour temperature branch.
turn_on_color_temp(s, b, kw, fail) ==
    IF kw.white = None /\ s.white_value = None
    THEN Outcome(s, <<>>, "type_error")
    ELSE
    LET white == IF kw.white # None THEN kw.white
                 ELSE IF s.white_value > 0 THEN s.white_value ELSE 255
        br == IF kw.brightness = None THEN s.brightness ELSE kw.brightness
    IN  IF s.mode = MODE_RGBCW
        THEN AfterCall(s, color_temp_rgbcw(kw.color_temp, white), fail)
        ELSE IF kw.color_temp > COLOR_TEMP_WARM_VS_COLD_WHITE_CUT_OFF
        THEN AfterCall(s, setRgbw(None, None, None, br, None, None), fail)
        ELSE AfterCall(s, setRgbw(None, None, None, None, br, None), fail)

\* lines 500-508: an explicit white value in mode rgbcw.
turn_on_white_cw(s, b, kw, fail) ==
    LET current_temp == temperature_cw(b)
        base == IF current_temp[1] = 0 /\ current_temp[2] = 0
                THEN <<255, 255>> ELSE current_temp
    IN  AfterCall(s, setRgbwFrac(base[2] * kw.white, base[1] * kw.white, 255),
                  fail)

\* lines 509-511: an explicit white value in mode rgbww.
turn_on_white_ww(s, kw, fail) == AfterCall(s, setWarmWhite255(kw.white), fail)

\* lines 513-530: effect random; rnd are the three random.randint draws.
\* _hs_color is assigned after the client call.
turn_on_random(s, rnd, fail) ==
    IF fail
    THEN AfterCall(s, setRgbw(rnd[1], rnd[2], rnd[3], None, None, None), TRUE)
    ELSE AfterCall([s EXCEPT !.hs_color = color_RGB_to_hs(rnd)],
                   setRgbw(rnd[1], rnd[2], rnd[3], None, None, None), FALSE)

\* lines 532-535: a preset of EFFECT_MAP.
turn_on_effect(s, kw, fail) ==
    AfterCall([s EXCEPT !.current_effect = EffName(kw.effect)],
              setPresetPattern(EFFECT_MAP[kw.effect], s.effect_speed), fail)

\* lines 537-540: nothing to set and not on: switch the bulb on.
turn_on_bare(s, fail) == AfterCall([s EXCEPT !.state = "True"], turnOn, fail)

\* lines 562-565 and 558-559: the call the mode selects.
turn_on_dispatch(m, rgb, white, br) ==
    IF m = MODE_WHITE THEN setRgbw(0, 0, 0, br, None, None)
    ELSE IF m = MODE_RGBW THEN setRgbw(rgb[1], rgb[2], rgb[3], white, None, br)
    ELSE setRgb(rgb[1], rgb[2], rgb[3], br)

\* line 552-553: the white channel of the colour branch.
turn_on_resolve_white(s, kw) ==
    IF ~Truthy(kw.white) /\ s.mode = MODE_RGBW THEN s.white_value
    ELSE kw.white

\* lines 542-565: colour and brightness; rgb0 is the rgb of lines 446-450.
turn_on_color(s, kw, rgb0, fail) ==
    LET br == IF ~Truthy(kw.brightness) THEN s.last_brightness
              ELSE kw.brightness
        s1 == [s EXCEPT !.brightness = br]
        rgb == IF rgb0 = NoneHs /\ s.last_hs_color # NoneHs
               THEN color_hs_to_RGB(s.last_hs_color) ELSE rgb0
        white == turn_on_resolve_white(s, kw)
    IN  IF rgb = NoneHs
        THEN Outcome(s1, <<>>, "type_error")
        ELSE AfterCall([s1 EXCEPT !.hs_color = color_RGB_to_hs(rgb),
                                  !.state = "True"],
                       turn_on_dispatch(s.mode, rgb, white, br), fail)

\* turn_on_branch, had it looked for a named effect first.
turn_on_branch_effect_first(s, kw) ==
    IF kw.effect \in DOMAIN EFFECT_MAP THEN "effect"
    ELSE IF kw.color_temp # None THEN "color_temp"
    ELSE IF kw.white # None /\ s.mode = MODE_RGBCW THEN "white_cw"
    ELSE IF kw.white # None /\ s.mode = MODE_RGBWW THEN "white_ww"
    ELSE IF kw.effect = EFFECT_RANDOM THEN "random"
    ELSE IF ~Truthy(kw.brightness) /\ kw.hs_color = NoneHs /\ s.state # "True"
    THEN "bare"
    ELSE "color"

\* The if statements of turn_on in the order they are written (lines 458,
\* 499-509, 513, 532, 537); the last branch is what remains (lines 542-565).
\* rgb is None exactly when hs_color is (lines 446-450).
turn_on_branch(s, kw) ==
    IF kw.color_temp # None THEN "color_temp"
    ELSE IF kw.white # None /\ s.mode = MODE_RGBCW THEN "white_cw"
    ELSE IF kw.white # None /\ s.mode = MODE_RGBWW THEN "white_ww"
    ELSE IF kw.effect = EFFECT_RANDOM THEN "random"
    ELSE IF kw.effect \in DOMAIN EFFECT_MAP THEN "effect"
    ELSE IF ~Truthy(kw.brightness) /\ kw.hs_color = NoneHs /\ s.state # "True"
    THEN "bare"
    ELSE "color"

\* The fields among _state, _brightness, _hs_color, _white_value and
\* _current_effect that a branch assigns on its way to the client call.
turn_on_assigns(branch) ==
    CASE branch = "color_temp" -> {}
      [] branch = "white_cw" -> {}
      [] branch = "white_ww" -> {}
      [] branch = "random" -> {"hs_color"}
      [] branch = "effect" -> {"current_effect"}
      [] branch = "bare" -> {"state"}
      [] OTHER -> {"brightness", "hs_color", "state"}

\* turn_on(**kw): rnd is what random.randint would draw, fail whether the
\* client call the handler reaches raises.
turn_on(s, b, kw, rnd, fail) ==
    LET rgb == IF kw.hs_color # NoneHs THEN color_hs_to_RGB(kw.hs_color)
               ELSE NoneHs
        branch == turn_on_branch(s, kw)
    IN  CASE branch = "color_temp" -> turn_on_color_temp(s, b, kw, fail)
          [] branch = "white_cw" -> turn_on_white_cw(s, b, kw, fail)
          [] branch = "white_ww" -> turn_on_white_ww(s, kw, fail)
          [] branch = "random" -> turn_on_random(s, rnd, fail)
          [] branch = "effect" -> turn_on_effect(s, kw, fail)
          [] branch = "bare" -> turn_on_bare(s, fail)
          [] OTHER -> turn_on_color(s, kw, rgb, fail)

\* -------------------------------------------------------------- turn_off
\* turn_off, had it also zeroed _brightness.
turn_off_zeroes_brightness(s, fail) ==
    AfterCall([s EXCEPT !.last_brightness = s.brightness,
                        !.last_hs_color = s.hs_color,
                        !.brightness = 0,
                        !.state = "False"],
              turnOff, fail)

\* turn_off, had it undone its assignments when turnOff() raises.
turn_off_rolls_back(s, fail) ==
    IF fail THEN AfterCall(s, turnOff, TRUE)
    ELSE AfterCall([s EXCEPT !.last_brightness = s.brightness,
                             !.last_hs_color = s.hs_color,
                             !.state = "False"],
                   turnOff, FALSE)

\* turn_off, lines 567-575.
turn_off(s, fail) ==
    AfterCall([s EXCEPT !.last_brightness = s.brightness,
                        !.last_hs_color = s.hs_color,
                        !.state = "False"],
              turnOff, fail)

\* ----------------------------------------------------- set_custom_effect
\* custom_effect_done, had it also stored the custom effect code.
custom_effect_done_sets_effect(s) ==
    [s EXCEPT !.state = "True", !.current_effect = EffCode(EFFECT_CUSTOM_CODE)]

\* line 585: what follows the setCustomPattern call.
custom_effect_done(s) == [s EXCEPT !.state = "True"]

\* set_custom_effect, without the turn_on() of lines 580-581.
set_custom_effect_without_turn_on(s, b, ce, failAt) ==
    LET call == setCustomPattern(ce.colors, ce.speed_pct, ce.transition)
    IN  IF failAt = 1 THEN Outcome(s, <<call>>, "client_error")
        ELSE Outcome(custom_effect_done(s), <<call>>, "ok")

\* set_custom_effect, lines 577-585.
\* failAt: 0 no client call raises, 1 the first one made does, 2 the second.
set_custom_effect(s, b, ce, failAt) ==
    LET on == IF s.state # "True"
              THEN turn_on(s, b, NoKw, <<0, 0, 0>>, failAt = 1)
              ELSE Outcome(s, <<>>, "ok")
        n == Len(on.cmds)
        call == setCustomPattern(ce.colors, ce.speed_pct, ce.transition)
    IN  IF on.result # "ok" THEN on
        ELSE IF failAt = n + 1
        THEN Outcome(on.self, on.cmds \o <<call>>, "client_error")
        ELSE Outcome(custom_effect_done(on.self), on.cmds \o <<call>>, "ok")


\* ------------------------------------------------------- the state machine
NoPre == [ valid |-> FALSE, state |-> "None", brightness |-> None,
           hs_color |-> NoneHs, current_effect |-> NoEffect ]
Pre(s) == [ valid |-> TRUE, state |-> s.state, brightness |-> s.brightness,
            hs_color |-> s.hs_color, current_effect |-> s.current_effect ]

\* The entity __init__ builds, lines 240-258: the device's mode is not read.
FluxLight(speed) ==
    [ state |-> "None", brightness |-> None, hs_color |-> NoneHs,
      white_value |-> None, current_effect |-> NoEffect,
      last_brightness |-> None, last_hs_color |-> NoneHs, mode |-> "None",
      get_rgbw |-> NoneHs, get_rgb |-> NoneHs, effect_speed |-> speed ]

\* __init__, lines 240-258; the client was constructed by async_new_lights.
InitEntity ==
    /\ state = "None"
    /\ brightness = None
    /\ hs_color = NoneHs
    /\ white_value = None
    /\ current_effect = NoEffect
    /\ last_brightness = None
    /\ last_hs_color = NoneHs
    /\ mode = "None"
    /\ get_rgbw = NoneHs
    /\ get_rgb = NoneHs
    /\ effect_speed \in EffectSpeeds
    /\ bulb \in { getRgbww(b) : b \in Snapshots }
    /\ fetched = NoSnapshot
    /\ throttled = FALSE
    /\ lastOp = "init"
    /\ result = "ok"
    /\ kwargs = NoKw
    /\ cmds = <<>>
    /\ before = NoPre

\* async_new_lights has added the batch that held this one bulb.
SetupAdded ==
    /\ pending = <<>>
    /\ lights = <<1>>
    /\ registered = {1}
    /\ setup = "added"
    /\ connected = TRUE
    /\ attempts = <<1>>

\* An entity of a device left at DEVICE_SCHEMA's default mode, once added.
Init ==
    /\ InitEntity
    /\ device_mode = MODE_RGBW
    /\ SetupAdded

Record(op, res, kw, calls, pre) ==
    /\ lastOp' = op
    /\ result' = res
    /\ kwargs' = kw
    /\ cmds' = calls
    /\ before' = pre

\* update(): the client fetches a snapshot and the entity derives its state.
UpdateFrom(snapshots) ==
    \E b \in snapshots :
        /\ Install(update(Self, b))
        /\ bulb' = getRgbww(b)
        /\ fetched' = b
        /\ throttled' = TRUE
        /\ Record("update", "ok", NoKw, <<>>, NoPre)
        /\ UNCHANGED << device_mode, setup_vars >>

UpdateOk == UpdateFrom(Snapshots)

\* update(): update_bulb_info raises BrokenPipeError.
UpdateFailed ==
    /\ Install(update_failed(Self))
    /\ UNCHANGED bulb
    /\ fetched' = NoSnapshot
    /\ throttled' = TRUE
    /\ Record("update", "fetch_failed", NoKw, <<>>, NoPre)
    /\ UNCHANGED << device_mode, setup_vars >>

\* update() inside the Throttle interval of an earlier call: not run.
UpdateThrottled ==
    /\ throttled
    /\ UNCHANGED << fields, bulb, throttled >>
    /\ fetched' = NoSnapshot
    /\ Record("update", "throttled", NoKw, <<>>, NoPre)
    /\ UNCHANGED << device_mode, setup_vars >>

TurnOnWith(intents) ==
    \E kw \in intents, fail \in BOOLEAN :
    \E rnd \in IF kw.effect = EFFECT_RANDOM THEN Palette ELSE {<<0, 0, 0>>} :
        LET r == turn_on(Self, bulb, kw, rnd, fail)
        IN  /\ Install(r.self)
            /\ UNCHANGED << bulb, throttled >>
            /\ fetched' = NoSnapshot
            /\ Record("turn_on", r.result, kw, r.cmds,
                      IF lastOp = "turn_off" /\ kw = NoKw THEN before
                      ELSE NoPre)
            /\ UNCHANGED << device_mode, setup_vars >>

TurnOn == TurnOnWith(Intents)

TurnOff ==
    \E fail \in BOOLEAN :
        LET r == turn_off(Self, fail)
        IN  /\ Install(r.self)
            /\ UNCHANGED << bulb, throttled >>
            /\ fetched' = NoSnapshot
            /\ Record("turn_off", r.result, NoKw, r.cmds, Pre(Self))
            /\ UNCHANGED << device_mode, setup_vars >>

SetCustomEffect ==
    \E ce \in CustomEffects, failAt \in 0..2 :
        LET r == set_custom_effect(Self, bulb, ce, failAt)
        IN  /\ Install(r.self)
            /\ UNCHANGED << bulb, throttled >>
            /\ fetched' = NoSnapshot
            /\ Record("set_custom_effect", r.result, NoKw, r.cmds, Pre(Self))
            /\ UNCHANGED << device_mode, setup_vars >>

Next ==
    \/ UpdateOk
    \/ UpdateFailed
    \/ UpdateThrottled
    \/ TurnOn
    \/ TurnOff
    \/ SetCustomEffect

Spec == Init /\ [][Next]_vars

\* The effect property over every raw effect byte: an entity that is only
\* refreshed, against snapshots that differ in raw_state[3] alone.
EffectSnapshots ==
    { [ is_on |-> TRUE, brightness |-> 255, rgb |-> <<255, 128, 0>>,
        ww |-> 0, cw |-> 0, mode |-> "color", rgbwcapable |-> FALSE,
        rgbwprotocol |-> FALSE, raw_state3 |-> eb ] : eb \in 0..255 }

UpdateAnyEffect == UpdateFrom(EffectSnapshots)

NextEffect == UpdateAnyEffect \/ UpdateFailed

SpecEffect == Init /\ [][NextEffect]_vars

\* What the set up never touches: the entity, its client, its history.
entity_vars ==
    << fields, bulb, fetched, throttled, lastOp, result, kwargs, cmds, before,
       device_mode >>

\* The colour temperature branch of mode rgbcw as a function of the mired
\* value and the white scale, applied once to every value of both.
ColorTempRgbcw ==
    /\ lastOp = "init"
    /\ \E color_temp \in mired_max..mired_min, white \in 0..255 :
        /\ cmds' = << color_temp_rgbcw(color_temp, white) >>
        /\ kwargs' = Kw(NoneHs, None, "None", white, color_temp)
        /\ lastOp' = "color_temp_rgbcw"
        /\ result' = "ok"
        /\ UNCHANGED << fields, bulb, fetched, throttled, before, device_mode,
                        setup_vars >>

NextTemp == ColorTempRgbcw

SpecTemp == Init /\ [][NextTemp]_vars

\* An entity whose device is configured with any mode of DEVICE_SCHEMA
\* (line 150), refreshed and sent the commands whose branches look at _mode.
DeviceModes == { MODE_RGBW, MODE_RGBWW, MODE_RGBCW, MODE_RGB, MODE_WHITE }

InitConfigured ==
    /\ InitEntity
    /\ device_mode \in DeviceModes
    /\ SetupAdded

ConfiguredSnapshots ==
    { b \in Snapshots : b.brightness = 255 /\ b.raw_state3 = 56 }

ConfiguredIntents ==
    { NoKw,
      Kw(NoneHs, None, "None", None, 286),
      Kw(NoneHs, None, "None", 255, None) }

UpdateConfigured == UpdateFrom(ConfiguredSnapshots)

TurnOnConfigured == TurnOnWith(ConfiguredIntents)

NextConfigured ==
    \/ UpdateConfigured
    \/ UpdateFailed
    \/ TurnOnConfigured
    \/ TurnOff

SpecConfigured == InitConfigured /\ [][NextConfigured]_vars

\* ------------------------------------------------------ async_new_lights
\* Bulbs are numbered 1..MaxBulbs.
MaxBulbs == 3

BulbIds == 1..MaxBulbs

Range(s) == { s[i] : i \in DOMAIN s }

\* The bulbs dict of one call, in its order: distinct keys.
Batches(ids) ==
    { s \in UNION { [1..n -> ids] : n \in 0..Cardinality(ids) } :
        \A i, j \in DOMAIN s : s[i] = s[j] => i = j }

\* raise_not_ready, had it added the entities built before the failure.
raise_not_ready_adds_built(reg, built) == reg \cup Range(built)

\* lines 209-210: PlatformNotReady leaves the loop and async_new_lights, so
\* line 221 is not reached and the entities built are dropped.
raise_not_ready(reg, built) == reg

\* line 221: async_add_entities(lights, True).
async_add_entities(reg, built) == reg \cup Range(built)

\* async_new_lights(bulbs) up to its first await: with no bulb the loop is
\* skipped and the empty list is added at once.
NewLights(bulbs) ==
    /\ attempts' = <<>>
    /\ lights' = <<>>
    /\ pending' = bulbs
    /\ IF bulbs = <<>>
       THEN /\ registered' = async_add_entities(registered, <<>>)
            /\ setup' = "added"
       ELSE /\ setup' = "running"
            /\ UNCHANGED registered

\* async_setup_entry, lines 223-225: the bulbs of entry.data; the signal is
\* connected once that call has returned.
SetupEntry ==
    /\ setup = "start"
    /\ \E bulbs \in Batches(BulbIds) :
          /\ NewLights(bulbs)
          /\ connected' = (bulbs = <<>>)
    /\ UNCHANGED entity_vars

\* SIGNAL_ADD_DEVICE: async_new_lights is called with newly found bulbs.
SignalAddDevice ==
    /\ connected
    /\ setup \in {"added", "not_ready"}
    /\ \E bulbs \in Batches(BulbIds \ registered) : NewLights(bulbs)
    /\ UNCHANGED << connected, entity_vars >>

\* lines 206-221: the executor job WifiLedBulb(host) ends.  On success the
\* entity is appended and the loop goes on, or ends and the list is added;
\* on BrokenPipeError PlatformNotReady is raised.
ConstructClient ==
    /\ setup = "running"
    /\ \E ok \in BOOLEAN :
          LET bulb_id == Head(pending)
              built == Append(lights, bulb_id)
          IN  /\ attempts' = Append(attempts, bulb_id)
              /\ IF ~ok
                 THEN /\ registered' = raise_not_ready(registered, lights)
                      /\ setup' = "not_ready"
                      /\ UNCHANGED << lights, pending, connected >>
                 ELSE /\ lights' = built
                      /\ pending' = Tail(pending)
                      /\ IF Tail(pending) = <<>>
                         THEN /\ registered' =
                                     async_add_entities(registered, built)
                              /\ setup' = "added"
                              /\ connected' = TRUE
                         ELSE UNCHANGED << registered, setup, connected >>
    /\ UNCHANGED entity_vars

InitSetup ==
    /\ InitEntity
    /\ device_mode = MODE_RGBW
    /\ pending = <<>>
    /\ lights = <<>>
    /\ registered = {}
    /\ setup = "start"
    /\ connected = FALSE
    /\ attempts = <<>>

NextSetup ==
    \/ SetupEntry
    \/ SignalAddDevice
    \/ ConstructClient

SpecSetup == InitSetup /\ [][NextSetup]_vars


\* ------------------------------------------------------------- properties
OnlyEffect(kw) == kw = [NoKw EXCEPT !.effect = kw.effect]
OnlyBrightness(kw) ==
    kw.brightness # None /\ kw = [NoKw EXCEPT !.brightness = kw.brightness]

IsCustomPattern(c) == c.op = "setCustomPattern"

\* C1: in every reachable state, brightness 0 implies the light is not
\* reported on.
C1_ZeroBrightnessIsOff == brightness = 0 => state # "True"

\* C2: turn_on with only a named effect of EFFECT_MAP issues exactly one
\* setPresetPattern with the table's code and the configured speed, and the
\* effect property then reports that name.
C2_NamedEffectReported ==
    ( /\ lastOp = "turn_on"
      /\ result = "ok"
      /\ kwargs.effect \in DOMAIN EFFECT_MAP
      /\ OnlyEffect(kwargs) )
    => /\ cmds = << setPresetPattern(EFFECT_MAP[kwargs.effect], effect_speed) >>
       /\ effect(Self) = kwargs.effect

\* C3: turn_off on a light that is on, followed directly by turn_on with no
\* argument, leaves the light on with the brightness and hs_color it had
\* before the turn_off, and that turn_on calls turnOn() and nothing else.
C3_OffOnRestores ==
    ( /\ lastOp = "turn_on"
      /\ kwargs = NoKw
      /\ before.valid
      /\ before.state = "True" )
    => /\ state = "True"
       /\ brightness = before.brightness
       /\ hs_color = before.hs_color
       /\ cmds = << turnOn >>

C3_Witness ==
    /\ lastOp = "turn_on"
    /\ kwargs = NoKw
    /\ before.valid
    /\ before.state = "True"
    /\ before.brightness = 255
    /\ before.hs_color = Red
    /\ result = "ok"

\* C4: set_custom_effect on a light that is not on calls turnOn() first and
\* setCustomPattern second (the second follows unless the first raised);
\* on a light that is on it calls setCustomPattern alone.
C4_CustomEffectTurnsOnFirst ==
    lastOp = "set_custom_effect" =>
        IF before.state # "True"
        THEN /\ Len(cmds) \in 1..2
             /\ cmds[1] = turnOn
             /\ Len(cmds) = 2 => IsCustomPattern(cmds[2])
             /\ Len(cmds) = 1 => result = "client_error"
        ELSE /\ Len(cmds) = 1
             /\ IsCustomPattern(cmds[1])

C4_Witness ==
    /\ lastOp = "set_custom_effect"
    /\ result = "ok"
    /\ before.state = "False"
    /\ cmds[1] = turnOn
    /\ IsCustomPattern(cmds[2])

\* C5 as stated: once set_custom_effect has returned, the effect property
\* reports the custom effect.
C5_CustomEffectReported ==
    (lastOp = "set_custom_effect" /\ result = "ok")
    => effect(Self) = EFFECT_CUSTOM

\* C5 as amended: set_custom_effect leaves _current_effect as it found it
\* and, once it has returned, the light is reported on.
C5_CustomEffectKeepsEffect ==
    lastOp = "set_custom_effect" =>
        /\ current_effect = before.current_effect
        /\ result = "ok" => state = "True"

C5_Witness ==
    /\ lastOp = "set_custom_effect"
    /\ result = "ok"
    /\ effect(Self) = "colorjump"

\* C6: an update whose fetch fails leaves isOn, brightness, hueSaturation,
\* whiteValue, activeEffect, mode, lastBrightness and lastHueSaturation as
\* they were.
C6_FetchFailureKeepsState ==
    [][ (lastOp' = "update" /\ result' = "fetch_failed")
        => UNCHANGED << state, brightness, hs_color, white_value,
                        current_effect, mode, last_brightness,
                        last_hs_color >> ]_vars

C6_Witness ==
    /\ lastOp = "update"
    /\ result = "fetch_failed"
    /\ state = "True"
    /\ brightness = 255
    /\ mode = MODE_RGBW

LastChanged ==
    last_brightness' # last_brightness \/ last_hs_color' # last_hs_color

\* C7 as stated: _last_brightness and _last_hs_color change only in an
\* update that leaves the light on, and are never reset to None.
C7_LastOnlyByUpdate ==
    [][ /\ LastChanged =>
            (lastOp' = "update" /\ result' = "ok" /\ state' = "True")
        /\ last_brightness # None => last_brightness' # None
        /\ last_hs_color # NoneHs => last_hs_color' # NoneHs ]_vars

\* C7 as amended: they change only in an update that leaves the light on,
\* or in turn_off, which copies _brightness and _hs_color into them; and
\* they are never reset to None.
C7_LastByUpdateOrTurnOff ==
    [][ /\ LastChanged =>
            \/ (lastOp' = "update" /\ result' = "ok" /\ state' = "True")
            \/ ( /\ lastOp' = "turn_off"
                 /\ last_brightness' = brightness
                 /\ last_hs_color' = hs_color )
        /\ last_brightness # None => last_brightness' # None
        /\ last_hs_color # NoneHs => last_hs_color' # NoneHs ]_vars

C7_Witness ==
    /\ lastOp = "turn_off"
    /\ last_hs_color = Red
    /\ last_brightness = 255
    /\ get_rgb = <<255, 128, 0>>

\* C8: after a successful update the light is on exactly when the snapshot's
\* on flag is set and the brightness just computed is above 0.
C8_OnIffRawOnAndBright ==
    (lastOp = "update" /\ result = "ok") =>
        /\ state \in {"True", "False"}
        /\ state = "True" <=> (fetched.is_on /\ brightness > 0)

C8_Witness ==
    /\ lastOp = "update"
    /\ result = "ok"
    /\ fetched.is_on
    /\ brightness = 0
    /\ state = "False"

TableCodes == { EFFECT_MAP[n] : n \in DOMAIN EFFECT_MAP }

\* C9: after a successful update the effect property reports the name whose
\* code is the snapshot's raw effect byte, the custom effect for byte 0x60,
\* and None for any other byte; the table's codes are 0x25..0x38, one name
\* each.
C9_EffectFromRawByte ==
    /\ TableCodes = 37..56
    /\ \A n1, n2 \in DOMAIN EFFECT_MAP :
           EFFECT_MAP[n1] = EFFECT_MAP[n2] => n1 = n2
    /\ (lastOp = "update" /\ result = "ok") =>
           LET byte == fetched.raw_state3
               name == effect(Self)
           IN  /\ byte = 96 => name = EFFECT_CUSTOM
               /\ byte \in TableCodes =>
                      /\ name \in DOMAIN EFFECT_MAP
                      /\ EFFECT_MAP[name] = byte
               /\ byte \notin TableCodes \cup {96} => name = "None"

C9_Witness ==
    /\ lastOp = "update"
    /\ result = "ok"
    /\ fetched.raw_state3 = 56
    /\ effect(Self) = "colorjump"

\* C10: in mode rgbw, turn_on with only a brightness issues one setRgbw whose
\* white channel is the current _white_value and whose brightness is the one
\* requested.
C10_BrightnessOnlyKeepsWhite ==
    (lastOp = "turn_on" /\ mode = MODE_RGBW /\ OnlyBrightness(kwargs)) =>
        /\ Len(cmds) = 1
        /\ cmds[1].op = "setRgbw"
        /\ cmds[1].args[4] = white_value
        /\ cmds[1].args[6] = kwargs.brightness

\* C11: _mode is written only by a successful update, which sets it to w for
\* sub-mode "ww", else to rgbw for a bulb that is rgbwcapable and not on the
\* rgbw protocol, else to rgb; every other step leaves it as it was.
C11_ModeOnlyByUpdate ==
    [][ IF lastOp' = "update" /\ result' = "ok"
        THEN mode' = ( IF fetched'.mode = "ww" THEN MODE_WHITE
                       ELSE IF fetched'.rgbwcapable /\ ~fetched'.rgbwprotocol
                       THEN MODE_RGBW
                       ELSE MODE_RGB )
        ELSE mode' = mode ]_vars

C11_Witness ==
    /\ lastOp = "turn_on"
    /\ result = "ok"
    /\ kwargs.white = 255
    /\ mode = MODE_RGB
    /\ get_rgbw[4] = 255

TempCase == lastOp = "color_temp_rgbcw"

\* warm and cold before scaling, and the channels of the call made.
TempDerived == temp_warm_cold(kwargs.color_temp)
TempIssuedWarm == cmds[1].args[4]
TempIssuedCold == cmds[1].args[5]

\* C12 as stated: in mode rgbcw, for every mired value in 153..500 and white
\* scale in 0..255, mired 500 derives warm 255 and cold 0, mired 153 derives
\* warm 0 and cold 255, the call has cold >= warm, and cold = warm exactly
\* when the derived warm exceeded the derived cold.
C12_ColdEqualsWarmIffWarmer ==
    TempCase =>
        /\ kwargs.color_temp = mired_min =>
               TempDerived = << 255 * TempDen, 0 >>
        /\ kwargs.color_temp = mired_max =>
               TempDerived = << 0, 255 * TempDen >>
        /\ cmds[1].op = "setRgbw"
        /\ TempIssuedCold >= TempIssuedWarm
        /\ TempIssuedCold = TempIssuedWarm <=> TempDerived[1] > TempDerived[2]

\* C12 as amended: the same, except that cold = warm exactly when the derived
\* warm exceeded the derived cold or the white scale is 0 (both channels are
\* then 0).
C12_ColdEqualsWarmIffWarmerOrDark ==
    TempCase =>
        /\ kwargs.color_temp = mired_min =>
               TempDerived = << 255 * TempDen, 0 >>
        /\ kwargs.color_temp = mired_max =>
               TempDerived = << 0, 255 * TempDen >>
        /\ cmds[1].op = "setRgbw"
        /\ TempIssuedCold >= TempIssuedWarm
        /\ TempIssuedCold = TempIssuedWarm <=>
               (kwargs.white = 0 \/ TempDerived[1] > TempDerived[2])

C12_Witness ==
    /\ TempCase
    /\ kwargs.color_temp = 400
    /\ kwargs.white = 128
    /\ TempDerived[1] > TempDerived[2]
    /\ TempIssuedWarm > 0
    /\ TempIssuedCold = TempIssuedWarm

\* The branch C13 expects: the first that matches, in the order colour
\* temperature, white (modes rgbcw and rgbww), random, named effect, bare
\* turn on while not on, colour and brightness.
ExpectedBranch(kw, m, st) ==
    IF kw.color_temp # None THEN "color_temp"
    ELSE IF kw.white # None /\ m \in {MODE_RGBCW, MODE_RGBWW} THEN "white"
    ELSE IF kw.effect = EFFECT_RANDOM THEN "random"
    ELSE IF kw.effect \in DOMAIN EFFECT_MAP THEN "effect"
    ELSE IF ~Truthy(kw.brightness) /\ kw.hs_color = NoneHs /\ st # "True"
    THEN "bare"
    ELSE "color"

HasColour(c) == c.args[1] # None /\ c.args[2] # None /\ c.args[3] # None

\* The call c is the one the branch makes.
CommandOfBranch(branch, c) ==
    CASE branch = "color_temp" -> c.op = "setRgbw" /\ ~HasColour(c)
      [] branch = "white" ->
             \/ c.op = "setRgbw" /\ ~HasColour(c)
             \/ c.op = "setWarmWhite255"
      [] branch = "random" ->
             /\ c.op = "setRgbw"
             /\ << c.args[1], c.args[2], c.args[3] >> \in Palette
             /\ c.args[4] = None /\ c.args[5] = None /\ c.args[6] = None
      [] branch = "effect" -> c.op = "setPresetPattern"
      [] branch = "bare" -> c = turnOn
      [] OTHER ->
             \/ c.op = "setRgb"
             \/ c.op = "setRgbw" /\ HasColour(c) /\ c.args[5] = None

\* C13: a turn_on that returns has made exactly one call on the client, the
\* call of the first branch that matches; the calls of later branches are
\* not made even when their arguments are given too.
C13_FirstBranchWins ==
    [][ (lastOp' = "turn_on" /\ result' = "ok") =>
            /\ Len(cmds') = 1
            /\ CommandOfBranch(ExpectedBranch(kwargs', mode, state), cmds'[1])
      ]_vars

C13_Witness ==
    /\ lastOp = "turn_on"
    /\ result = "ok"
    /\ kwargs.effect = "colorjump"
    /\ kwargs.color_temp = 286
    /\ cmds[1].op = "setRgbw"
    /\ ~HasColour(cmds[1])

\* C14: no branch of turn_on makes a call on the client without assigning
\* one of _state, _brightness, _hs_color, _white_value, _current_effect.
C14_EveryBranchAssigns ==
    [][ (lastOp' = "turn_on" /\ cmds' # <<>>) =>
            turn_on_assigns(turn_on_branch(Self, kwargs')) # {} ]_vars

Reconciled(s) ==
    << s.state, s.brightness, s.hs_color, s.white_value, s.current_effect,
       s.mode >>

\* C15: after a successful update, _state, _brightness, _hs_color,
\* _white_value, _current_effect and _mode are what a newly built entity
\* gets from the same snapshot, whatever calls came before: any two entities
\* updated from one snapshot agree on them.
C15_RefreshReconciles ==
    (lastOp = "update" /\ result = "ok") =>
        Reconciled(Self) = Reconciled(update(FluxLight(effect_speed), fetched))

C15_Witness ==
    /\ lastOp = "update"
    /\ result = "ok"
    /\ state = "False"
    /\ brightness = 0
    /\ last_brightness = 255
    /\ last_hs_color = Red
    /\ hs_color # Red

\* C16: turn_off copies _brightness and _hs_color into _last_brightness and
\* _last_hs_color and sets _state False before it calls turnOff(); when that
\* call raises, all of this stays.
C16_TurnOffCompletesLocally ==
    lastOp = "turn_off" =>
        /\ state = "False"
        /\ last_brightness = before.brightness
        /\ last_hs_color = before.hs_color
        /\ brightness = before.brightness
        /\ hs_color = before.hs_color
        /\ cmds = << turnOff >>

C16_Witness ==
    /\ lastOp = "turn_off"
    /\ result = "client_error"
    /\ before.state = "True"
    /\ state = "False"
    /\ last_brightness = 255
    /\ last_hs_color = <<30118, 100000>>

\* C17: an entity whose device is configured with mode rgbcw or rgbww runs
\* in that mode once it has been refreshed.
C17_ConfiguredModeRuns ==
    ( /\ device_mode \in {MODE_RGBCW, MODE_RGBWW}
      /\ lastOp = "update"
      /\ result = "ok" )
    => mode = device_mode

\* What holds instead: _mode is None or one of the three modes update
\* detects, whatever the device's configuration says.
ModeIsDetected == mode \in {"None", MODE_WHITE, MODE_RGBW, MODE_RGB}

\* C18: outside mode rgbcw, turn_on with a colour temperature makes exactly
\* one call, setRgbw with one white channel set to the brightness given or
\* else to _brightness: w above 285 mired, w2 at 285 and below.
C18_ColorTempSingleWhite ==
    (lastOp = "turn_on" /\ kwargs.color_temp # None /\ mode # MODE_RGBCW) =>
        LET br == IF kwargs.brightness # None THEN kwargs.brightness
                  ELSE brightness
        IN  cmds = << IF kwargs.color_temp
                            > COLOR_TEMP_WARM_VS_COLD_WHITE_CUT_OFF
                      THEN setRgbw(None, None, None, br, None, None)
                      ELSE setRgbw(None, None, None, None, br, None) >>

\* update_bulb_info has succeeded at least once: nothing else assigns
\* _get_rgb.
Refreshed == get_rgb # NoneHs

\* C19: once an update has succeeded, turn_on with only a brightness, or
\* with no argument while the light is on, makes its call with a brightness
\* and a colour taken from _last_brightness and _last_hs_color; it does not
\* raise for a value that is still None.
C19_DefaultsResolved ==
    [][ ( /\ lastOp' = "turn_on"
          /\ Refreshed
          /\ \/ OnlyBrightness(kwargs') /\ Truthy(kwargs'.brightness)
             \/ kwargs' = NoKw /\ state = "True" )
        => /\ result' # "type_error"
           /\ Len(cmds') = 1
           /\ cmds'[1].op \in {"setRgbw", "setRgb"}
           /\ HasColour(cmds'[1])
           /\ brightness' # None ]_vars

\* C20: when WifiLedBulb fails for a bulb, async_new_lights ends not ready
\* in that step; no bulb of the batch, the ones built before it included, is
\* among the registered entities, and no bulb is tried again: the calls of
\* WifiLedBulb are those for the bulbs built and the one that failed.
C20_FailureAbortsBatch ==
    /\ [][ (setup = "running" /\ attempts' # attempts /\ lights' = lights)
           => (setup' = "not_ready" /\ registered' = registered) ]_vars
    /\ [] ( setup = "not_ready" =>
              /\ pending # <<>>
              /\ (Range(lights) \cup Range(pending)) \cap registered = {}
              /\ attempts = Append(lights, Head(pending)) )

C20_Witness ==
    /\ setup = "not_ready"
    /\ Len(lights) >= 1
    /\ Len(pending) >= 1
    /\ registered # {}

====
